---------------------------- MODULE Spec2Model ----------------------------
(***************************************************************************)
(* A model of jvanalysis.py: the main loop that reads one J-V sweep per    *)
(* input file, moves it to the first quadrant, converts its units,         *)
(* computes Voc, Jsc, FF and PCE, and emits a plot and a text file.        *)
(*                                                                         *)
(* Numbers.  The program computes in IEEE double precision.  A number is   *)
(* modelled as an exact fraction n/d with a sign bit s:                    *)
(*    d > 0          a finite value n/d in lowest terms (s is the sign of  *)
(*                   the value, and the sign of the zero when n = 0);      *)
(*    d = 0, n = 1   an infinity of sign s;                                *)
(*    d = 0, n = 0   a NaN.                                                *)
(* Rounding error of the binary representation is not modelled; the sign   *)
(* of zero, the infinities and NaN are, because the formatted strings      *)
(* ('-0.00', 'inf', 'nan') show them.                                      *)
(***************************************************************************)
EXTENDS Integers, Sequences, FiniteSets, TLC

(***************************************************************************)
(* Bounds of the model.                                                    *)
(***************************************************************************)
\* The longest sweep (rows of one input file) drawn from Samples.
MaxLen == 3
\* The largest number of files in the analysed directory.
MaxFiles == 2

(***************************************************************************)
(* Double-precision arithmetic, as far as the program uses it.             *)
(***************************************************************************)
Abs(i) == IF i < 0 THEN -i ELSE i

RECURSIVE GCD(_, _)
GCD(a, b) == IF b = 0 THEN a ELSE GCD(b, a % b)

\* The finite value n/d (d > 0) in lowest terms; s is kept only for a zero.
Mk(n, d, s) ==
    IF n = 0 THEN [n |-> 0, d |-> 1, s |-> s]
    ELSE LET g == GCD(Abs(n), d)
         IN  [n |-> n \div g, d |-> d \div g, s |-> n < 0]

Num(i) == Mk(i, 1, FALSE)
Frac(n, d) == Mk(n, d, FALSE)
Infinity(s) == [n |-> 1, d |-> 0, s |-> s]
NaN == [n |-> 0, d |-> 0, s |-> FALSE]

IsFinite(x) == x.d # 0
IsNaN(x) == x.d = 0 /\ x.n = 0
IsZero(x) == x.d # 0 /\ x.n = 0

\* Comparisons of finite values (0.0 == -0.0, as in IEEE arithmetic).
NumEq(a, b) == a.n * b.d = b.n * a.d
NumLt(a, b) == a.n * b.d < b.n * a.d

\* x * y
Mul(a, b) ==
    IF IsNaN(a) \/ IsNaN(b) THEN NaN
    ELSE IF ~IsFinite(a) \/ ~IsFinite(b)
         THEN IF IsZero(a) \/ IsZero(b) THEN NaN ELSE Infinity(a.s # b.s)
         ELSE Mk(a.n * b.n, a.d * b.d, a.s # b.s)

\* x / y, with numpy's float64 semantics: a division by zero is no exception
\* (a RuntimeWarning only) and yields an infinity or a NaN.
Div(a, b) ==
    IF IsNaN(a) \/ IsNaN(b) THEN NaN
    ELSE IF ~IsFinite(a)
         THEN IF ~IsFinite(b) THEN NaN ELSE Infinity(a.s # b.s)
    ELSE IF ~IsFinite(b) THEN Mk(0, 1, a.s # b.s)
    ELSE IF IsZero(b)
         THEN IF IsZero(a) THEN NaN ELSE Infinity(a.s # b.s)
    ELSE Mk((IF b.n < 0 THEN -1 ELSE 1) * a.n * b.d, a.d * Abs(b.n), a.s # b.s)

\* x + y and x - y of finite values; an exact zero sum is +0 unless both
\* terms are -0.
Add(a, b) == Mk(a.n * b.d + b.n * a.d, a.d * b.d, a.s /\ b.s)
Sub(a, b) == Add(a, [b EXCEPT !.n = -b.n, !.s = ~b.s])

RECURSIVE Pow10(_)
Pow10(k) == IF k = 0 THEN 1 ELSE 10 * Pow10(k - 1)

\* 10**e for an integer exponent e of either sign.
TenTo(e) == IF e >= 0 THEN Num(Pow10(e)) ELSE Frac(1, Pow10(-e))

(***************************************************************************)
(* format(x, '.<k>f'): the value rounded half-to-even to k decimals, with  *)
(* the sign of x even when the digits are all zero.  Python rounds the     *)
(* exact binary value of the float; the model rounds the exact fraction,   *)
(* which differs only where the fraction is a decimal tie that has no      *)
(* exact binary value.                                                     *)
(***************************************************************************)
Digits(i, k) ==
    IF k = 0 THEN ToString(i)
    ELSE LET whole == i \div Pow10(k)
             frac  == i % Pow10(k)
         IN  ToString(whole) \o "." \o
             (IF k = 2 /\ frac < 10 THEN "0" ELSE "") \o ToString(frac)

RoundHalfEven(n, d) ==
    LET q == n \div d
        r == n % d
    IN  IF 2 * r < d THEN q
        ELSE IF 2 * r > d THEN q + 1
        ELSE IF q % 2 = 0 THEN q ELSE q + 1

Format(x, k) ==
    IF IsNaN(x) THEN "nan"
    ELSE IF ~IsFinite(x) THEN (IF x.s THEN "-inf" ELSE "inf")
    ELSE (IF x.s THEN "-" ELSE "") \o
         Digits(RoundHalfEven(Abs(x.n) * Pow10(k), x.d), k)

(***************************************************************************)
(* The data frame: a sequence of rows [V, C].                              *)
(***************************************************************************)
Row(v, c) == [V |-> v, C |-> c]
ColV(jv) == [i \in 1..Len(jv) |-> jv[i].V]
ColC(jv) == [i \in 1..Len(jv) |-> jv[i].C]
\* s[::-1]
Reversed(s) == [i \in 1..Len(s) |-> s[Len(s) + 1 - i]]


(***************************************************************************)
(* fix_quadrant(jv, quadrant): the curve moved to the first quadrant.      *)
(* exit is TRUE when the function prints its message and calls exit().     *)
(***************************************************************************)
MinusOne == Num(-1)

\* A variant that forgets the current in quadrant 3.
fix_quadrant_OnlyVoltage(jv, quadrant) ==
    IF quadrant = 2 \/ quadrant = 3
    THEN [exit |-> FALSE,
          jv |-> [i \in 1..Len(jv) |-> Row(Mul(jv[i].V, MinusOne), jv[i].C)]]
    ELSE IF quadrant = 4
    THEN [exit |-> FALSE,
          jv |-> [i \in 1..Len(jv) |-> Row(jv[i].V, Mul(jv[i].C, MinusOne))]]
    ELSE [exit |-> TRUE, jv |-> jv]

\* A variant that takes an unknown quadrant for the first one.
fix_quadrant_Default(jv, quadrant) ==
    IF quadrant = 2
    THEN [exit |-> FALSE,
          jv |-> [i \in 1..Len(jv) |-> Row(Mul(jv[i].V, MinusOne), jv[i].C)]]
    ELSE IF quadrant = 3
    THEN [exit |-> FALSE,
          jv |-> [i \in 1..Len(jv) |->
                    Row(Mul(jv[i].V, MinusOne), Mul(jv[i].C, MinusOne))]]
    ELSE IF quadrant = 4
    THEN [exit |-> FALSE,
          jv |-> [i \in 1..Len(jv) |-> Row(jv[i].V, Mul(jv[i].C, MinusOne))]]
    ELSE [exit |-> FALSE, jv |-> jv]

fix_quadrant(jv, quadrant) ==
    IF quadrant = 2
    THEN [exit |-> FALSE,
          jv |-> [i \in 1..Len(jv) |-> Row(Mul(jv[i].V, MinusOne), jv[i].C)]]
    ELSE IF quadrant = 3
    THEN [exit |-> FALSE,
          jv |-> [i \in 1..Len(jv) |->
                    Row(Mul(jv[i].V, MinusOne), Mul(jv[i].C, MinusOne))]]
    ELSE IF quadrant = 4
    THEN [exit |-> FALSE,
          jv |-> [i \in 1..Len(jv) |-> Row(jv[i].V, Mul(jv[i].C, MinusOne))]]
    ELSE [exit |-> TRUE, jv |-> jv]

(***************************************************************************)
(* numpy.interp(x, xp, fp) for a scalar x and Len(xp) >= 2.  The index is  *)
(* found as numpy finds it in an array of at most 4 items, by a linear     *)
(* search from the left; on a non-decreasing xp of any length numpy's      *)
(* bisection finds the same index.                                         *)
(***************************************************************************)
RECURSIVE LinearSearch(_, _, _)
LinearSearch(key, arr, i) ==
    IF i <= Len(arr) /\ ~NumLt(key, arr[i])
    THEN LinearSearch(key, arr, i + 1)
    ELSE i - 1

Interp(x, xp, fp) ==
    LET len == Len(xp)
    IN  IF NumLt(xp[len], x) THEN fp[len]
        ELSE IF NumLt(x, xp[1]) THEN fp[1]
        ELSE LET j == LinearSearch(x, xp, 2)
             IN  IF j = len THEN fp[j]
                 ELSE IF NumEq(xp[j], x) THEN fp[j]
                 ELSE LET slope == Div(Sub(fp[j + 1], fp[j]),
                                       Sub(xp[j + 1], xp[j]))
                      IN  Add(Mul(slope, Sub(x, xp[j])), fp[j])

(***************************************************************************)
(* get_parameters(jv).                                                     *)
(***************************************************************************)
Zero == Num(0)

\* jv[jv['V'] == 0].index.tolist()
ZeroRows(jv) == {i \in 1..Len(jv) : NumEq(jv[i].V, Zero)}

\* jv['V']*jv['C']
Power(jv) == [i \in 1..Len(jv) |-> Mul(jv[i].V, jv[i].C)]

\* numpy.amax: the values no other value exceeds.  They are one value,
\* except that a maximum of zero may come out as 0.0 or as -0.0 when both
\* occur among the products: which one depends on the build of numpy.
AMax(s) == {s[i] : i \in {k \in 1..Len(s) : \A j \in 1..Len(s) : ~NumLt(s[k], s[j])}}

\* A variant that interpolates a reverse scan without reversing it.
CalcJsc_NoReverse(jv) ==
    IF ZeroRows(jv) # {}
    THEN jv[CHOOSE i \in ZeroRows(jv) : TRUE].C
    ELSE Interp(Zero, ColV(jv), ColC(jv))

\* Lines 30-40: Jsc, for a frame of at least 2 rows with at most one V = 0.
CalcJsc(jv) ==
    IF ZeroRows(jv) # {}
    THEN jv[CHOOSE i \in ZeroRows(jv) : TRUE].C
    ELSE IF NumLt(jv[1].V, jv[2].V)
         THEN Interp(Zero, ColV(jv), ColC(jv))
         ELSE Interp(Zero, Reversed(ColV(jv)), Reversed(ColC(jv)))

\* A variant that interpolates a forward scan without reversing it.
CalcVoc_NoReverse(jv) == Interp(Zero, ColC(jv), ColV(jv))

\* Lines 44-47: Voc.
CalcVoc(jv) ==
    IF NumLt(jv[2].V, jv[1].V)
    THEN Interp(Zero, ColC(jv), ColV(jv))
    ELSE Interp(Zero, Reversed(ColC(jv)), Reversed(ColV(jv)))

\* Line 51.
CalcFF(Wmax, Jsc, Voc) == Mul(Div(Wmax, Mul(Jsc, Voc)), Num(100))

\* A variant with the quotient of the efficiency upside down.
CalcPCE_Inverted(Wmax) == Div(Num(1000), Wmax)

\* Line 54.
CalcPCE(Wmax) == Div(Wmax, Num(1000))

NoValues == [Voc |-> NaN, Jsc |-> NaN, FF |-> NaN, PCE |-> NaN, Wmax |-> NaN]
NoParams == [Voc |-> "", Jsc |-> "", FF |-> "", PCE |-> ""]

\* The exception get_parameters raises on jv, or "none":
\*   float() of an array of several items (several rows with V = 0), line 32;
\*   jv.iloc[0] or jv.iloc[1] of a frame of fewer than 2 rows, lines 37, 44.
Raises(jv) ==
    IF Cardinality(ZeroRows(jv)) > 1 THEN "TypeError"
    ELSE IF Len(jv) < 2 THEN "IndexError"
    ELSE "none"

\* The floats of lines 30-54, wmax being the value numpy.amax returned.
Values(jv, wmax) ==
    [Voc  |-> CalcVoc(jv),
     Jsc  |-> CalcJsc(jv),
     FF   |-> CalcFF(wmax, CalcJsc(jv), CalcVoc(jv)),
     PCE  |-> CalcPCE(wmax),
     Wmax |-> wmax]

\* Lines 56-60: the strings returned.
Strings(v) ==
    [Voc |-> Format(v.Voc, 0),
     Jsc |-> Format(v.Jsc, 2),
     FF  |-> Format(v.FF, 0),
     PCE |-> Format(v.PCE, 2)]

get_parameters(jv, wmax) ==
    IF Raises(jv) # "none"
    THEN [error |-> Raises(jv), values |-> NoValues, strings |-> NoParams]
    ELSE [error |-> "none", values |-> Values(jv, wmax),
          strings |-> Strings(Values(jv, wmax))]

(***************************************************************************)
(* jv_plot: the row of the table under the curve.                          *)
(***************************************************************************)
Placeholder == <<"----", "----", "----", "----">>

\* A variant that takes the dark scan from the value, not from the string.
jv_plot_Numeric(Voc, Jsc, FF, PCE) ==
    IF PCE # "0.00" /\ PCE # "-0.00" THEN <<Voc, Jsc, FF, PCE>> ELSE Placeholder

jv_plot(Voc, Jsc, FF, PCE) ==
    IF PCE # "0.00" THEN <<Voc, Jsc, FF, PCE>> ELSE Placeholder

(***************************************************************************)
(* jv_datafile: the four lines of main cell parameters of the text file,   *)
(* and the number of data rows written under them.                         *)
(***************************************************************************)
Labels == <<"Voc (mV): ", "Jsc (mA cm-2): ", "FF (%): ", "PCE (%): ">>

jv_datafile(jv, Voc, Jsc, FF, PCE) ==
    [lines |-> <<Labels[1] \o Voc, Labels[2] \o Jsc,
                 Labels[3] \o FF, Labels[4] \o PCE>>,
     nrows |-> Len(jv)]

(***************************************************************************)
(* Inputs: the configuration file and the contents of the input files.     *)
(***************************************************************************)
\* The (voltage, current) pairs the rows of a file are drawn from.
Samples == {<<-50, 2>>, <<50, -1>>, <<0, 0>>, <<50, 2>>, <<2, 2>>, <<0, 2>>}
SampleRows == {Row(Num(p[1]), Num(p[2])) : p \in Samples}

\* The sweep of the worked example: (-50,5.0) (0,4.8) (50,4.0) (100,2.0)
\* (150,0.0) (200,-3.0).
ExampleSweep ==
    <<Row(Num(-50), Num(5)), Row(Num(0), Frac(48, 10)), Row(Num(50), Num(4)),
      Row(Num(100), Num(2)), Row(Num(150), Num(0)), Row(Num(200), Num(-3))>>

Sweeps == UNION {[1..n -> SampleRows] : n \in 0..MaxLen} \cup {ExampleSweep}

\* cfg['quadrant']: the four quadrants and a value that is none of them.
Quadrants == 1..5

\* cfg['current'], cfg['carea'], cfg['ucurrent'], cfg['uarea'], cfg['uvoltage']:
\* a current density in mA cm-2 against mV; a current in A of a cell of 2 cm2
\* against V; a current density in mA mm-2 against mV.
Units ==
    {[current |-> "J", carea |-> 1, ucurrent |-> 0, uarea |-> 0, uvoltage |-> 0],
     [current |-> "i", carea |-> 2, ucurrent |-> 3, uarea |-> 0, uvoltage |-> 3],
     [current |-> "j", carea |-> 1, ucurrent |-> 0, uarea |-> -2, uvoltage |-> 0]}

Configs ==
    {[quadrant |-> q, current |-> u.current, carea |-> u.carea,
      ucurrent |-> u.ucurrent, uarea |-> u.uarea, uvoltage |-> u.uvoltage] :
        q \in Quadrants, u \in Units}

\* str.upper() on the letters of Units.
Upper(c) == CASE c = "j" -> "J" [] c = "i" -> "I" [] OTHER -> c

QuadrantMessage ==
    "The quadrant you provided in the configuration file does not exist."

(***************************************************************************)
(* The state of a run.                                                     *)
(***************************************************************************)
VARIABLES
    cfg,           \* the configuration loaded from config.yaml
    remaining,     \* the number of files of good_files not yet processed
    pc,            \* the statement of the main loop that runs next
    raw,           \* the frame as read_table returned it for this file
    jvdata,        \* the frame, as the steps of the loop have changed it
    values,        \* the floats get_parameters computed for this file
    params,        \* Voc, Jsc, FF, PCE: the strings get_parameters returned
    table_values,  \* the table of the plot saved for this file, or <<>>
    textfile,      \* the text file written for this file, or NoFile
    message,       \* what the run printed before it called exit()
    error          \* the exception that ended the run, or "none"

vars == <<cfg, remaining, pc, raw, jvdata, values, params, table_values,
          textfile, message, error>>

NoFile == [lines |-> <<>>, nrows |-> 0]

Init ==
    /\ cfg \in Configs
    /\ remaining \in 0..MaxFiles
    /\ pc = "loop"
    /\ raw = <<>>
    /\ jvdata = <<>>
    /\ values = NoValues
    /\ params = NoParams
    /\ table_values = <<>>
    /\ textfile = NoFile
    /\ message = ""
    /\ error = "none"

\* Lines 155-161: the for statement takes the next file of good_files, if
\* there is one.  Nothing computed for the file before is read again: the
\* results of that file are dropped here.
NextFile ==
    /\ pc = "loop"
    /\ remaining > 0
    /\ remaining' = remaining - 1
    /\ raw' = <<>>
    /\ jvdata' = <<>>
    /\ values' = NoValues
    /\ params' = NoParams
    /\ table_values' = <<>>
    /\ textfile' = NoFile
    /\ pc' = "read"
    /\ UNCHANGED <<cfg, message, error>>

\* Lines 163-175: pandas.read_table.
ReadFile ==
    /\ pc = "read"
    /\ \E sweep \in Sweeps :
          /\ raw' = sweep
          /\ jvdata' = sweep
    /\ pc' = "quadrant"
    /\ UNCHANGED <<cfg, remaining, values, params, table_values, textfile,
                   message, error>>

\* Lines 177-178 (and 19-20 when fix_quadrant gives up).
FixQuadrant ==
    /\ pc = "quadrant"
    /\ IF cfg.quadrant # 1
       THEN IF fix_quadrant(jvdata, cfg.quadrant).exit
            THEN /\ message' = QuadrantMessage
                 /\ pc' = "exited"
                 /\ UNCHANGED jvdata
            ELSE /\ jvdata' = fix_quadrant(jvdata, cfg.quadrant).jv
                 /\ pc' = "density"
                 /\ UNCHANGED message
       ELSE /\ pc' = "density"
            /\ UNCHANGED <<jvdata, message>>
    /\ UNCHANGED <<cfg, remaining, raw, values, params, table_values,
                   textfile, error>>

\* Lines 180-181.
ConvertDensity ==
    /\ pc = "density"
    /\ jvdata' = IF Upper(cfg.current) # "J"
                 THEN [i \in 1..Len(jvdata) |->
                         Row(jvdata[i].V, Div(jvdata[i].C, Num(cfg.carea)))]
                 ELSE jvdata
    /\ pc' = "units"
    /\ UNCHANGED <<cfg, remaining, raw, values, params, table_values,
                   textfile, message, error>>

\* Lines 183-184, then 186-187.
ScaleCurrent(jv) ==
    IF cfg.ucurrent # 0 \/ cfg.uarea # 0
    THEN [i \in 1..Len(jv) |->
            Row(jv[i].V,
                Mul(Mul(jv[i].C, TenTo(cfg.ucurrent)), TenTo(-cfg.uarea)))]
    ELSE jv

ScaleVoltage(jv) ==
    IF cfg.uvoltage # 0
    THEN [i \in 1..Len(jv) |-> Row(Mul(jv[i].V, TenTo(cfg.uvoltage)), jv[i].C)]
    ELSE jv

ConvertUnits ==
    /\ pc = "units"
    /\ jvdata' = ScaleVoltage(ScaleCurrent(jvdata))
    /\ pc' = "params"
    /\ UNCHANGED <<cfg, remaining, raw, values, params, table_values,
                   textfile, message, error>>

\* Line 189.  An exception of get_parameters is caught nowhere: it ends
\* the run.
WmaxOf(jv) == IF Raises(jv) # "none" THEN {NaN} ELSE AMax(Power(jv))

CalcParameters ==
    /\ pc = "params"
    /\ \E wmax \in WmaxOf(jvdata) :
          LET r == get_parameters(jvdata, wmax)
          IN  IF r.error # "none"
              THEN /\ error' = r.error
                   /\ pc' = "crashed"
                   /\ UNCHANGED <<values, params>>
              ELSE /\ values' = r.values
                   /\ params' = r.strings
                   /\ pc' = "plot"
                   /\ UNCHANGED error
    /\ UNCHANGED <<cfg, remaining, raw, jvdata, table_values, textfile,
                   message>>

\* Line 194.
Plot ==
    /\ pc = "plot"
    /\ table_values' = jv_plot(params.Voc, params.Jsc, params.FF, params.PCE)
    /\ pc' = "datafile"
    /\ UNCHANGED <<cfg, remaining, raw, jvdata, values, params, textfile,
                   message, error>>

\* Line 196, the last statement of the loop body.
Datafile ==
    /\ pc = "datafile"
    /\ textfile' = jv_datafile(jvdata, params.Voc, params.Jsc, params.FF,
                               params.PCE)
    /\ pc' = "loop"
    /\ UNCHANGED <<cfg, remaining, raw, jvdata, values, params, table_values,
                   message, error>>

Next ==
    \/ NextFile
    \/ ReadFile
    \/ FixQuadrant
    \/ ConvertDensity
    \/ ConvertUnits
    \/ CalcParameters
    \/ Plot
    \/ Datafile

Spec == Init /\ [][Next]_vars

(***************************************************************************)
(* Properties.                                                             *)
(***************************************************************************)
Positive(x) == IsFinite(x) /\ x.n > 0
NonNegative(x) == IsFinite(x) /\ x.n >= 0
Opposite(a, b) == IsFinite(a) /\ IsFinite(b) /\ a.n * b.d = -(b.n * a.d)
MinOf(S) == CHOOSE i \in S : \A j \in S : i <= j

\* get_parameters has returned for the file at hand.
Extracted == params # NoParams
\* jv_plot, jv_datafile have run for the file at hand.
Plotted == table_values # <<>>
Written == textfile # NoFile

ComputedRow == <<params.Voc, params.Jsc, params.FF, params.PCE>>
ComputedLines ==
    <<"Voc (mV): " \o params.Voc, "Jsc (mA cm-2): " \o params.Jsc,
      "FF (%): " \o params.FF, "PCE (%): " \o params.PCE>>
PlaceholderLines ==
    <<"Voc (mV): ----", "Jsc (mA cm-2): ----", "FF (%): ----", "PCE (%): ----">>

\* C1: right after the quadrant step, for a configured quadrant 1, 2, 3 or 4,
\* the frame has the rows of the file, in their order, each (V, C) for
\* quadrant 1, (-V, C) for 2, (-V, -C) for 3 and (V, -C) for 4.
C1_QuadrantCorrection ==
    (pc = "density" /\ cfg.quadrant \in 1..4) =>
        /\ Len(jvdata) = Len(raw)
        /\ \A i \in 1..Len(raw) :
              CASE cfg.quadrant = 1 -> jvdata[i] = raw[i]
                [] cfg.quadrant = 2 -> /\ Opposite(jvdata[i].V, raw[i].V)
                                       /\ jvdata[i].C = raw[i].C
                [] cfg.quadrant = 3 -> /\ Opposite(jvdata[i].V, raw[i].V)
                                       /\ Opposite(jvdata[i].C, raw[i].C)
                [] cfg.quadrant = 4 -> /\ jvdata[i].V = raw[i].V
                                       /\ Opposite(jvdata[i].C, raw[i].C)

C1_Witness ==
    /\ pc = "density"
    /\ cfg.quadrant = 3
    /\ Len(raw) >= 2
    /\ \E i \in 1..Len(raw) : raw[i].V.n # 0 /\ raw[i].C.n # 0

\* C2: with a configured quadrant outside 1..4 the run never gets past the
\* quadrant step of its first file: it prints the message and exits there,
\* the frame is never changed, no parameters are computed and no plot or text
\* file is written, and after the exit no statement runs, so no later file is
\* read.
C2_InvalidQuadrantAborts ==
    cfg.quadrant \notin 1..4 =>
        /\ pc \in {"loop", "read", "quadrant", "exited"}
        /\ jvdata = raw
        /\ values = NoValues
        /\ ~Extracted /\ ~Plotted /\ ~Written
        /\ error = "none"
        /\ message # "" <=> pc = "exited"
        /\ pc = "exited" => (message = QuadrantMessage /\ ~ENABLED Next)

C2_Witness ==
    /\ pc = "exited"
    /\ cfg.quadrant \notin 1..4
    /\ message = QuadrantMessage
    /\ Len(raw) >= 2
    /\ remaining > 0

\* C3: for the sweep of the worked example, quadrant 1, a current that is a
\* density and all exponents 0, get_parameters raises nothing and returns
\* Voc "150", Jsc "4.80", FF "28", PCE "0.20"; Jsc is the current of the
\* row with V = 0 and Wmax is 200.
ExampleConfig ==
    /\ cfg.quadrant = 1
    /\ Upper(cfg.current) = "J"
    /\ cfg.ucurrent = 0 /\ cfg.uarea = 0 /\ cfg.uvoltage = 0

C3_WorkedExample ==
    (raw = ExampleSweep /\ ExampleConfig
        /\ pc \notin {"quadrant", "density", "units", "params"}) =>
        /\ error = "none"
        /\ params = [Voc |-> "150", Jsc |-> "4.80", FF |-> "28", PCE |-> "0.20"]
        /\ values.Jsc = raw[2].C
        /\ values.Wmax = Num(200)

C3_Witness == raw = ExampleSweep /\ ExampleConfig /\ pc = "plot"

\* C4: when the frame given to get_parameters (at least 2 rows) has rows with
\* V = 0, get_parameters raises nothing and its Jsc is the current of the
\* first such row.
C4_ExactZeroJsc ==
    (pc \in {"plot", "crashed"} /\ Len(jvdata) >= 2 /\ ZeroRows(jvdata) # {}) =>
        /\ error = "none"
        /\ values.Jsc = jvdata[MinOf(ZeroRows(jvdata))].C
        /\ params.Jsc = Format(jvdata[MinOf(ZeroRows(jvdata))].C, 2)

\* get_parameters on the frame in reverse order does what it did on the
\* frame: the same exception, or the same Voc and Jsc.
ForwardScan(jv) == Len(jv) >= 2 /\ NumLt(jv[1].V, jv[2].V)
EndsRising(jv) == Len(jv) >= 2 /\ NumLt(jv[Len(jv) - 1].V, jv[Len(jv)].V)

SameOnReversed ==
    LET r == get_parameters(Reversed(jvdata), values.Wmax)
    IN  /\ r.error = error
        /\ error = "none" =>
              /\ r.values.Voc = values.Voc /\ r.strings.Voc = params.Voc
              /\ r.values.Jsc = values.Jsc /\ r.strings.Jsc = params.Jsc

\* C5, as claimed: for every frame whose first voltage is below its second,
\* get_parameters returns the same Voc and Jsc on the frame and on the frame
\* in reverse order.
C5_ReversedSame ==
    (pc \in {"plot", "crashed"} /\ ForwardScan(jvdata)) => SameOnReversed

\* C5, amended: for every frame whose first voltage is below its second and
\* whose last voltage is above the one before it (so that the frame in
\* reverse order is taken for a reverse scan), get_parameters does the same on
\* the frame and on the frame in reverse order: it raises the same exception
\* or returns the same Voc and Jsc.
C5_ReversedSameIfEndsRising ==
    (pc \in {"plot", "crashed"} /\ ForwardScan(jvdata) /\ EndsRising(jvdata)) =>
        SameOnReversed

C5_Witness ==
    /\ pc = "plot"
    /\ ForwardScan(jvdata) /\ EndsRising(jvdata)
    /\ Len(jvdata) >= 3
    /\ ZeroRows(jvdata) = {}
    /\ Positive(values.Jsc) /\ Positive(values.Voc)
    /\ values.Voc \notin {jvdata[i].V : i \in 1..Len(jvdata)}

\* C6, as claimed: whenever the computed Jsc and Voc are positive, FF and PCE
\* are finite and not negative.
C6_NonNegative ==
    (Extracted /\ Positive(values.Jsc) /\ Positive(values.Voc)) =>
        NonNegative(values.FF) /\ NonNegative(values.PCE)

\* C6, amended: whenever the computed Jsc and Voc are positive, FF and PCE
\* are finite, and they are not negative when some row has V*C >= 0.
C6_FiniteAndSignOfWmax ==
    (Extracted /\ Positive(values.Jsc) /\ Positive(values.Voc)) =>
        /\ IsFinite(values.FF) /\ IsFinite(values.PCE)
        /\ (\E i \in 1..Len(jvdata) : jvdata[i].V.n * jvdata[i].C.n >= 0) =>
              NonNegative(values.FF) /\ NonNegative(values.PCE)

C6_Witness ==
    /\ Extracted
    /\ Positive(values.Jsc) /\ Positive(values.Voc)
    /\ Positive(values.Wmax)
    /\ Positive(values.FF) /\ Positive(values.PCE)

\* C7, as claimed: once the plot and the text file of a file are written,
\* both show the placeholder row when the PCE string is "0.00", and both
\* show the computed Voc, Jsc, FF, PCE otherwise.
C7_BothArtifacts ==
    Written =>
        IF params.PCE = "0.00"
        THEN table_values = Placeholder /\ textfile.lines = PlaceholderLines
        ELSE table_values = ComputedRow /\ textfile.lines = ComputedLines

\* C7, amended: the table of the plot shows the placeholder row when the PCE
\* string is "0.00" and the computed Voc, Jsc, FF, PCE otherwise; the text
\* file shows the computed Voc, Jsc, FF, PCE always.
C7_PlotOnly ==
    /\ Plotted =>
          table_values = IF params.PCE = "0.00" THEN Placeholder ELSE ComputedRow
    /\ Written => textfile.lines = ComputedLines

C7_Witness ==
    /\ Written
    /\ params.PCE = "0.00"
    /\ ~IsZero(values.PCE)
    /\ table_values = Placeholder

\* C8: when the computed Jsc or the computed Voc is 0, the table of the plot
\* is the placeholder row.
C8_DegeneratePlaceholder ==
    (Plotted /\ (IsZero(values.Jsc) \/ IsZero(values.Voc))) =>
        table_values = Placeholder

\* C9: for a frame of at least 2 rows whose current is nowhere positive (and,
\* here, with at most one row of V = 0), get_parameters raises nothing and the
\* table of the plot is the placeholder row.
C9_NeverPositiveCurrent ==
    (/\ Len(jvdata) >= 2
     /\ \A i \in 1..Len(jvdata) : jvdata[i].C.n <= 0
     /\ Cardinality(ZeroRows(jvdata)) <= 1) =>
        /\ pc # "crashed"
        /\ Plotted => table_values = Placeholder

\* C10: a file of fewer than 2 rows is rejected before its frame is
\* normalized: get_parameters is never called on it.
C10_ShortSweepRejected ==
    pc \in {"params", "plot", "datafile", "crashed"} => Len(raw) >= 2

=============================================================================
